---- MODULE Spec2Model ----
(***************************************************************************)
(* Model of Bot.py: a Discord news bot with three publication paths that   *)
(* share one dedup store (posted_links, persisted to posted_links.json):   *)
(*   - on_message: chat ingestion, filter -> AI rewrite -> dedup -> send   *)
(*   - rss_loop:   recurring RSS poll, dedup -> send                       *)
(*   - cmd_news:   interactive !news workflow of four prompts              *)
(* Python strings are sequences of one-character strings; Cyrillic         *)
(* literals of the source are written transliterated to ASCII.             *)
(* Every await of the source at which another coroutine can touch shared   *)
(* state separates two actions of the model.                               *)
(***************************************************************************)
EXTENDS Bags, FiniteSets, Integers, Sequences, TLC

VARIABLES
    posted_links,   \* the in-memory dedup set (global posted_links)
    disk,           \* posted_links.json: [state, keys]
    loaded,         \* what load_posted() returned at the last process start
    handlers,       \* on_message coroutines of the news channel, by arrival
    delivered,      \* bag of the cards whose channel.send(...) returned
    rss,            \* the rss_loop task
    workflows,      \* cmd_news coroutines, in order of invocation
    loop            \* [tasks, readies]: running rss_loop tasks, on_ready events

vars == <<posted_links, disk, loaded, handlers, delivered, rss, workflows, loop>>

(***************************************************************************)
(* Bounds of the model.                                                    *)
(***************************************************************************)
MaxMsgs == 2        \* news-channel messages
MaxCycles == 2      \* rss_loop iterations
MaxWorkflows == 2   \* !news invocations
MaxFeeds == 2       \* configured RSS sources polled per cycle
MixEvents == 3
MaxReadies == 2      \* messages, polls and invocations when the paths run together

(***************************************************************************)
(* Python str operations.                                                  *)
(***************************************************************************)
\* None, told apart from every str
None == <<"None">>

LowerOf ==
    [A |-> "a", B |-> "b", C |-> "c", D |-> "d", E |-> "e", F |-> "f", G |-> "g",
     H |-> "h", I |-> "i", J |-> "j", K |-> "k", L |-> "l", M |-> "m", N |-> "n",
     O |-> "o", P |-> "p", Q |-> "q", R |-> "r", S |-> "s", T |-> "t", U |-> "u",
     V |-> "v", W |-> "w", X |-> "x", Y |-> "y", Z |-> "z"]

LowerChar(c) == IF c \in DOMAIN LowerOf THEN LowerOf[c] ELSE c

\* str.lower()
lower(s) == [i \in 1..Len(s) |-> LowerChar(s[i])]

IsSpace(c) == c \in {" ", "\n"}

RECURSIVE lstrip(_)
lstrip(s) == IF s # <<>> /\ IsSpace(Head(s)) THEN lstrip(Tail(s)) ELSE s

RECURSIVE rstrip(_)
rstrip(s) ==
    IF s # <<>> /\ IsSpace(s[Len(s)]) THEN rstrip(SubSeq(s, 1, Len(s) - 1)) ELSE s

\* str.strip()
strip(s) == rstrip(lstrip(s))

\* s[:n]
Take(s, n) == SubSeq(s, 1, IF Len(s) < n THEN Len(s) ELSE n)

\* len(s.split()): the number of whitespace-delimited tokens
NumTokens(s) ==
    Cardinality({i \in 1..Len(s) : ~IsSpace(s[i]) /\ (i = 1 \/ IsSpace(s[i - 1]))})

\* sub in s
Contains(sub, s) ==
    \E i \in 0..(Len(s) - Len(sub)) : SubSeq(s, i + 1, i + Len(sub)) = sub

\* sep.join(parts)
RECURSIVE join(_, _)
join(sep, parts) ==
    IF parts = <<>> THEN <<>>
    ELSE IF Len(parts) = 1 THEN parts[1]
    ELSE parts[1] \o sep \o join(sep, Tail(parts))

\* s.splitlines()
RECURSIVE splitlines(_)
splitlines(s) ==
    IF s = <<>> THEN <<>>
    ELSE IF \E i \in 1..Len(s) : s[i] = "\n"
    THEN LET i == CHOOSE j \in 1..Len(s) :
                      s[j] = "\n" /\ \A k \in 1..(j - 1) : s[k] # "\n"
         IN  <<SubSeq(s, 1, i - 1)>> \o splitlines(SubSeq(s, i + 1, Len(s)))
    ELSE <<s>>

\* [f(x) for x in seq if x]: drop the empty strings
RECURSIVE NonEmpty(_)
NonEmpty(parts) ==
    IF parts = <<>> THEN <<>>
    ELSE IF Head(parts) = <<>> THEN NonEmpty(Tail(parts))
    ELSE <<Head(parts)>> \o NonEmpty(Tail(parts))

StripAll(parts) == [i \in 1..Len(parts) |-> strip(parts[i])]

(***************************************************************************)
(* Configuration.                                                          *)
(***************************************************************************)
BANNED_WORDS == { <<"z","o","v">> }

INSUFFICIENT_PHRASES == {
    <<"m","a","l","o"," ","i","n","f","o","r","m","a","c","i","i">>,
    <<"n","e","d","o","s","t","a","t","o","c","h","n","o"," ",
      "i","n","f","o","r","m","a","c","i","i">>,
    <<"n","e"," ","m","o","g","u"," ","s","o","s","t","a","v","i","t">>,
    <<"n","e","t"," ","i","n","f","o","r","m","a","c","i","i">>,
    <<"n","e","d","o","s","t","a","t","o","c","h","n","o"," ",
      "d","a","n","n","y","h">> }

NEWS_CHANNEL_ID == "news"
BotUser == "bot"

(***************************************************************************)
(* Persistence.                                                            *)
(***************************************************************************)
\* load_posted(): the file's keys, or the empty set when the file is absent
\* or cannot be parsed
load_posted(d) == IF d.state = "ok" THEN d.keys ELSE {}

\* The outcomes of save_posted(s): the write succeeds; open() raises and the
\* file is untouched; or open(.., "w") has truncated the file and the dump
\* raises, leaving a file that no longer parses.  All exceptions are caught.
SaveOutcomes == {"ok", "open_failed", "dump_failed"}

\* save_posted writing only the keys the file does not hold yet
save_posted_delta(d, s, outcome) ==
    CASE outcome = "ok" -> [state |-> "ok", keys |-> s \ d.keys]
      [] outcome = "open_failed" -> d
      [] OTHER -> [state |-> "corrupt", keys |-> {}]

save_posted(d, s, outcome) ==
    CASE outcome = "ok" -> [state |-> "ok", keys |-> s]
      [] outcome = "open_failed" -> d
      [] OTHER -> [state |-> "corrupt", keys |-> {}]

(***************************************************************************)
(* Key derivation.                                                         *)
(***************************************************************************)
\* hashlib.sha256(b).hexdigest(): modelled as an injective tagging of b
sha256(b) == <<"#">> \o b

make_ai_key(text) == <<"A","I","|">> \o sha256(lower(strip(text)))

\* make_rss_key without the lowercasing
make_rss_key_cased(title, link) ==
    <<"R","S","S","|">> \o strip(title) \o <<"|">> \o link

make_rss_key(title, link) ==
    <<"R","S","S","|">> \o lower(strip(title)) \o <<"|">> \o link

(***************************************************************************)
(* Content filter.                                                         *)
(***************************************************************************)
\* A message is [author, channel, content, embeds]; an embed is
\* [title, description, fields], a field [name, value]; None marks an
\* absent title or description.
FieldParts(fields) ==
    [i \in 1..Len(fields) |-> fields[i].name \o <<":"," ">> \o fields[i].value]

RECURSIVE EmbedParts(_)
EmbedParts(embeds) ==
    IF embeds = <<>> THEN <<>>
    ELSE LET em == Head(embeds)
         IN  (IF em.title # None /\ em.title # <<>> THEN <<strip(em.title)>> ELSE <<>>)
             \o (IF em.description # None /\ em.description # <<>>
                 THEN <<strip(em.description)>> ELSE <<>>)
             \o FieldParts(em.fields)
             \o EmbedParts(Tail(embeds))

extract_text_from_message(message) ==
    LET c == strip(message.content)
        parts == (IF message.content # <<>> /\ c # <<>> THEN <<c>> ELSE <<>>)
                 \o EmbedParts(message.embeds)
    IN  strip(join(<<"\n","\n">>, NonEmpty(parts)))

message_has_banned_word(text) ==
    \E w \in BANNED_WORDS : Contains(w, lower(text))

HasPhrase(t) == \E ph \in INSUFFICIENT_PHRASES : Contains(ph, t)

\* looks_insufficient_text without the phrase list
looks_insufficient_text_short(text) == NumTokens(lower(strip(text))) < 3

looks_insufficient_text(text) ==
    LET t == lower(strip(text))
    IN  NumTokens(t) < 3 \/ HasPhrase(t)

\* on_message's check of the rewritten text
RewriteInsufficient(rewritten) ==
    LET lower_rewritten == lower(rewritten)
    IN  HasPhrase(lower_rewritten) \/ NumTokens(lower_rewritten) < 3

(***************************************************************************)
(* Rewrite gateway.                                                        *)
(***************************************************************************)
\* What the POST to the rewrite service can come to:
\*   exception  - transport error, timeout, a body that is not JSON, an empty
\*                choices list, a content that is not a string: all raise
\*                inside the try and are caught
\*   status     - a response whose status is not 200
\*   no_content - a 200 JSON body lacking choices/message/content
\*   content    - a 200 body carrying the rewritten text
AIFailures == {[kind |-> "exception", content |-> <<>>],
               [kind |-> "status", content |-> <<>>]}

AIResponses(contents) ==
    AIFailures
    \cup {[kind |-> "no_content", content |-> <<>>]}
    \cup {[kind |-> "content", content |-> c] : c \in contents}

\* process_with_ai_async answering a failure with an empty text
process_with_ai_async_empty(original_text, resp) ==
    IF resp.kind = "content" THEN strip(resp.content) ELSE <<>>

process_with_ai_async(original_text, resp) ==
    CASE resp.kind \in {"exception", "status"} -> original_text
      [] resp.kind = "no_content" -> strip(original_text)
      [] OTHER -> strip(resp.content)

(***************************************************************************)
(* Cards.                                                                  *)
(***************************************************************************)
\* on_message: the first non-empty line is the title, the rest the body
AILines(rewritten) == NonEmpty(StripAll(splitlines(rewritten)))

AITitle(rewritten) ==
    LET lines == AILines(rewritten)
    IN  <<"*"," ">> \o (IF lines # <<>> THEN Take(lines[1], 250)
                        ELSE <<"N","o","v","o","s","t">>)

AIBody(rewritten) ==
    LET lines == AILines(rewritten)
        body_text == IF Len(lines) > 1 THEN join(<<"\n">>, Tail(lines)) ELSE rewritten
    IN  IF Len(body_text) > 4096 THEN Take(body_text, 4090) \o <<".",".",".">>
        ELSE body_text

\* A delivered card: the title and description of the embed (and the url of
\* an RSS embed); raw, text and ai_failed record what it was built from.
AICard(hd) ==
    [origin |-> "AI", by |-> 0, key |-> hd.ai_key, raw |-> hd.text,
     text |-> hd.rewritten, ai_failed |-> hd.ai_failed,
     title |-> AITitle(hd.rewritten), body |-> AIBody(hd.rewritten), url |-> None,
     image |-> None]

\* cmd_news: the embed built from the four replies
ManualCard(wf) ==
    [origin |-> "MANUAL", by |-> 0, key |-> None, raw |-> wf.text,
     text |-> wf.text, ai_failed |-> FALSE,
     title |-> Take(wf.title, 256), body |-> Take(wf.text, 4096), url |-> None,
     image |-> None]

(***************************************************************************)
(* The interactive !news command.                                          *)
(***************************************************************************)
CancelWord == <<"o","t","m","e","n","a">>
Dash == <<"-">>
NewsCommand == <<"!","n","e","w","s">>

\* members holding the Manage Messages permission
Operators == {"op"}

AwaitStates == {"AwaitTitle", "AwaitBody", "AwaitSourceLink", "AwaitImage"}

\* the command parser: prefix "!", then the word "news"
IsNewsCommand(content) ==
    /\ Len(content) >= Len(NewsCommand)
    /\ SubSeq(content, 1, Len(NewsCommand)) = NewsCommand
    /\ (Len(content) = Len(NewsCommand) \/ IsSpace(content[Len(NewsCommand) + 1]))

\* cmd_news up to its first wait_for; `sent` lists what it has sent to the
\* operator, `reply` is the content of the last reply it received and `at`
\* the prompt that reply answered
NewWorkflow(message) ==
    [author |-> message.author, channel |-> message.channel, pc |-> "AwaitTitle",
     title |-> None, text |-> None, src |-> None, img |-> None,
     reply |-> None, at |-> "none", sent |-> <<"ask_title">>]

\* the predicate check(m) of cmd_news
check(wf, m) == m.author = wf.author /\ m.channel = wf.channel

\* cmd_news returns after telling the operator `note`; its locals are gone
Ended(wf, pc, note) ==
    [wf EXCEPT !.pc = pc, !.sent = Append(@, note),
               !.title = None, !.text = None, !.src = None, !.img = None]

\* the cancellation test without .lower()
IsCancelExact(content) == content = CancelWord

\* title_msg.content.lower() == "отмена"
IsCancel(content) == lower(content) = CancelWord

\* cmd_news from the return of one wait_for to its next await
OnReply(wf, m, targetFound) ==
    LET got == [wf EXCEPT !.reply = m.content, !.at = wf.pc]
    IN  CASE wf.pc = "AwaitTitle" ->
               IF IsCancel(m.content)
               THEN Ended(got, "Cancelled", "cancelled")
               ELSE [got EXCEPT !.pc = "AwaitBody", !.title = strip(m.content),
                                !.sent = Append(@, "ask_body")]
          [] wf.pc = "AwaitBody" ->
               IF IsCancel(m.content)
               THEN Ended(got, "Cancelled", "cancelled")
               ELSE [got EXCEPT !.pc = "AwaitSourceLink", !.text = strip(m.content),
                                !.sent = Append(@, "ask_source")]
          [] wf.pc = "AwaitSourceLink" ->
               [got EXCEPT !.pc = "AwaitImage",
                           !.src = IF strip(m.content) = Dash THEN None
                                   ELSE strip(m.content),
                           !.sent = Append(@, "ask_image")]
          [] wf.pc = "AwaitImage" ->
               IF targetFound
               THEN [got EXCEPT !.pc = "Publish",
                                !.img = IF strip(m.content) = Dash THEN None
                                        ELSE strip(m.content)]
               ELSE Ended(got, "NoTarget", "no_target")
          [] OTHER -> wf

\* dispatch of a message event to the futures registered by wait_for: every
\* waiting workflow whose check accepts the message receives it
Dispatch(wfs, m, targetFound) ==
    [w \in 1..Len(wfs) |->
        IF wfs[w].pc \in AwaitStates /\ check(wfs[w], m)
        THEN OnReply(wfs[w], m, targetFound)
        ELSE wfs[w]]

\* bot.process_commands(message): invoke cmd_news when the message is the
\* command and its author passes has_permissions(manage_messages=True)
process_commands(wfs, message) ==
    IF IsNewsCommand(message.content) /\ message.author \in Operators
    THEN Append(wfs, NewWorkflow(message))
    ELSE wfs

(***************************************************************************)
(* Inputs.                                                                 *)
(***************************************************************************)
Msg(author, channel, content, embeds) ==
    [author |-> author, channel |-> channel, content |-> content, embeds |-> embeds]

NoMsg == Msg("none", "none", <<>>, <<>>)

\* messages posted to the ingestion channel
NewsMessages == {
    Msg("user", "news", <<"a"," ","b"," ","c">>, <<>>),
    Msg("user", "news", <<"A"," ","B"," ","C">>, <<>>),
    Msg("user", "news", <<"o","k">>, <<>>),
    Msg("user", "news", <<"x"," ","Z","o","v"," ","y">>, <<>>),
    Msg("user", "news", <<"N","e","t"," ","i","n","f","o","r","m","a","c","i","i",
                          " ","t","u","t">>, <<>>),
    Msg("user", "news", <<" ">>, <<>>),
    Msg("user", "news", <<>>,
        <<[title |-> <<"b"," ","c">>, description |-> <<"d">>, fields |-> <<>>]>>),
    Msg("bot", "news", <<"a"," ","b"," ","c">>, <<>>),
    Msg("op", "news", <<"!","n","e","w","s"," ","a"," ","b">>, <<>>) }

\* texts the rewrite service answers with
AIContents == {
    <<" ","A"," ","b"," ","c"," ">>,
    <<"n","e","t"," ","i","n","f","o","r","m","a","c","i","i"," ","x">>,
    <<"h","i">> }

\* what is typed in the operators' channel
OperatorMessages == {
    Msg("op", "ops", <<"!","n","e","w","s">>, <<>>),
    Msg("op", "ops", <<"O","t","m","e","n","a">>, <<>>),
    Msg("op", "ops", <<" ","-"," ">>, <<>>),
    Msg("user", "ops", <<"!","n","e","w","s">>, <<>>) }

(***************************************************************************)
(* Initial state: the process has started and load_posted() has run.       *)
(***************************************************************************)
SavedKeys == { make_ai_key(<<"a"," ","b"," ","c">>) }

InitDisks == {[state |-> "absent", keys |-> {}],
              [state |-> "ok", keys |-> SavedKeys]}

NoCard == [origin |-> "none", by |-> 0, key |-> None, raw |-> None, text |-> None,
           ai_failed |-> FALSE, title |-> None, body |-> None, url |-> None,
           image |-> None]

\* rss_loop asleep between two iterations, `cycle` iterations done
IdleRss(cycle) == [pc |-> "idle", cycle |-> cycle, feeds |-> <<>>, f |-> 0, i |-> 0,
                   new_added |-> FALSE, card |-> NoCard, resolved |-> {}]

\* the module has been loaded: load_posted() has run, on_ready has not
InitBoot ==
    /\ disk \in InitDisks
    /\ posted_links = load_posted(disk)
    /\ loaded = posted_links
    /\ handlers = <<>>
    /\ delivered = EmptyBag
    /\ rss = IdleRss(0)
    /\ workflows = <<>>
    /\ loop = [tasks |-> 0, readies |-> 0]

\* on_ready starting a loop task whether or not one is running
StartAlways(tasks) == tasks + 1

\* on_ready: `if not rss_loop.is_running(): rss_loop.start()`
StartIfIdle(tasks) == IF tasks > 0 THEN tasks ELSE tasks + 1

\* the gateway reports ready, at the first connection or after a reconnect
OnReady ==
    /\ loop.readies < MaxReadies
    /\ loop' = [tasks |-> StartIfIdle(loop.tasks), readies |-> loop.readies + 1]
    /\ UNCHANGED <<posted_links, disk, loaded, handlers, delivered, rss, workflows>>

\* the bot is connected: on_ready has run once and started rss_loop
Init ==
    /\ disk \in InitDisks
    /\ posted_links = load_posted(disk)
    /\ loaded = posted_links
    /\ handlers = <<>>
    /\ delivered = EmptyBag
    /\ rss = IdleRss(0)
    /\ workflows = <<>>
    /\ loop = [tasks |-> StartIfIdle(0), readies |-> 1]

(***************************************************************************)
(* on_message.                                                             *)
(***************************************************************************)
\* the pre-rewrite filter: the branch of on_message the raw text takes
PreFilter(text) ==
    CASE text = <<>> -> "empty"
      [] message_has_banned_word(text) -> "banned"
      [] looks_insufficient_text(text) -> "insufficient"
      [] OTHER -> "pass"

\* on_message ignoring the bot's own messages, which are let through
IsOwnNever(message) == FALSE

\* message.author.id == bot.user.id
IsOwn(message) == message.author = BotUser

\* on_message has returned through `branch`; its locals are gone
Returned(hd, branch) ==
    [hd EXCEPT !.pc = "done", !.branch = branch,
               !.message = NoMsg, !.text = None, !.rewritten = None, !.ai_key = None]

\* Finished returning from the duplicate branch without process_commands
FinishedSkipsCommands(hd, branch) ==
    IF branch = "duplicate" THEN Returned(hd, branch)
    ELSE [Returned(hd, branch) EXCEPT !.cmds = @ + 1]

\* on_message has called process_commands and returned through `branch`
Finished(hd, branch) == [Returned(hd, branch) EXCEPT !.cmds = @ + 1]

\* on_message of a news-channel message up to its first await on the rewrite
\* service, or to its end when the pre-rewrite filter rejects the text
StartHandler(message) ==
    LET text == extract_text_from_message(message)
        hd == [message |-> message, author |-> message.author, text |-> text,
               pc |-> "ai", branch |-> "pending", requests |-> 0,
               ai_failed |-> FALSE, rewritten |-> None, ai_key |-> None,
               cmds |-> 0, saved |-> "none"]
    IN  IF IsOwn(message) THEN Returned([hd EXCEPT !.text = None], "own")
        ELSE IF PreFilter(text) = "pass" THEN [hd EXCEPT !.requests = @ + 1]
        ELSE Finished(hd, PreFilter(text))

\* handlers that will still call process_commands with the command
PendingCommands ==
    Cardinality({h \in 1..Len(handlers) :
        /\ handlers[h].pc # "done"
        /\ IsNewsCommand(handlers[h].message.content)
        /\ handlers[h].message.author \in Operators})

\* A message event: the wait_for futures are served first, then on_message
\* runs up to its first suspension.
Arrive(message, targetFound) ==
    LET served == Dispatch(workflows, message, targetFound)
    IN  /\ (IsNewsCommand(message.content) /\ message.author \in Operators)
               => Len(workflows) + PendingCommands < MaxWorkflows
        /\ IF message.channel = NEWS_CHANNEL_ID
           THEN /\ Len(handlers) < MaxMsgs
                /\ handlers' = Append(handlers, StartHandler(message))
                /\ workflows' = IF StartHandler(message).cmds > 0
                                THEN process_commands(served, message)
                                ELSE served
           ELSE /\ workflows' = IF IsOwn(message) THEN served
                                ELSE process_commands(served, message)
                /\ UNCHANGED handlers
        /\ UNCHANGED <<posted_links, disk, loaded, delivered, rss, loop>>

\* on_message from the return of the rewrite call to the await on
\* target.send (or to its end): post-rewrite check, key, dedup check, embed
AfterRewrite(hd, resp, posted, targetFound) ==
    LET rewritten == process_with_ai_async(hd.text, resp)
        ai_key == make_ai_key(rewritten)
        got == [hd EXCEPT !.ai_failed = (resp.kind # "content")]
    IN  IF RewriteInsufficient(rewritten) THEN Finished(got, "ai_insufficient")
        ELSE IF ai_key \in posted THEN Finished(got, "duplicate")
        ELSE IF ~targetFound THEN Finished(got, "no_target")
        ELSE [got EXCEPT !.pc = "send", !.rewritten = rewritten, !.ai_key = ai_key]

AIReturn(h, resp, targetFound) ==
    /\ handlers[h].pc = "ai"
    /\ LET hd == AfterRewrite(handlers[h], resp, posted_links, targetFound)
       IN  /\ handlers' = [handlers EXCEPT ![h] = hd]
           /\ workflows' = IF hd.cmds > handlers[h].cmds
                           THEN process_commands(workflows, handlers[h].message)
                           ELSE workflows
    /\ UNCHANGED <<posted_links, disk, loaded, delivered, rss, loop>>

\* ChatCommit assigning the new key instead of adding it
ChatCommitReplace(posted, ai_key, ok) == IF ok THEN {ai_key} ELSE posted

\* ChatCommit with the add moved out of the try, before the send
ChatCommitEarly(posted, ai_key, ok) == posted \cup {ai_key}

\* posted_links after target.send returned (ok) or raised
ChatCommit(posted, ai_key, ok) == IF ok THEN posted \cup {ai_key} ELSE posted

\* on_message from the return of target.send to its end
SendReturn(h, ok, outcome) ==
    /\ handlers[h].pc = "send"
    /\ posted_links' = ChatCommit(posted_links, handlers[h].ai_key, ok)
    /\ disk' = IF ok THEN save_posted(disk, posted_links', outcome) ELSE disk
    /\ delivered' = IF ok THEN delivered (+) SetToBag({AICard(handlers[h])})
                    ELSE delivered
    /\ handlers' = [handlers EXCEPT ![h] =
           [Finished(@, IF ok THEN "published" ELSE "send_failed")
               EXCEPT !.saved = IF ok THEN outcome ELSE "none"]]
    /\ workflows' = IF handlers'[h].cmds > handlers[h].cmds
                    THEN process_commands(workflows, handlers[h].message)
                    ELSE workflows
    /\ UNCHANGED <<loaded, rss, loop>>

(***************************************************************************)
(* cmd_news.                                                               *)
(***************************************************************************)
\* OnTimeout with the notice sent but the coroutine left waiting
OnTimeoutGoesOn(wf) == [wf EXCEPT !.sent = Append(@, "timeout_notice")]

\* wait_for raises asyncio.TimeoutError: the except clause sends the notice
OnTimeout(wf) == Ended(wf, "Aborted", "timeout_notice")

Timeout(w) ==
    /\ workflows[w].pc \in AwaitStates
    /\ workflows' = [workflows EXCEPT ![w] = OnTimeout(@)]
    /\ UNCHANGED <<posted_links, disk, loaded, handlers, delivered, rss, loop>>

\* ManualSendReturn recording a chat key for the published text
ManualSendReturnKeyed(w, ok) ==
    /\ workflows[w].pc = "Publish"
    /\ make_ai_key(workflows[w].text) \notin posted_links
    /\ delivered' = IF ok THEN delivered (+) SetToBag({ManualCard(workflows[w])})
                    ELSE delivered
    /\ posted_links' = IF ok THEN posted_links \cup {make_ai_key(workflows[w].text)}
                       ELSE posted_links
    /\ workflows' = [workflows EXCEPT ![w] =
           IF ok THEN Ended(@, "Done", "published") ELSE Ended(@, "Error", "error")]
    /\ UNCHANGED <<disk, loaded, handlers, rss, loop>>

\* cmd_news from the return of target.send to its end; when send raises, the
\* exception leaves cmd_news and cmd_news_error reports it
ManualSendReturn(w, ok) ==
    /\ workflows[w].pc = "Publish"
    /\ delivered' = IF ok THEN delivered (+) SetToBag({ManualCard(workflows[w])})
                    ELSE delivered
    /\ workflows' = [workflows EXCEPT ![w] =
           IF ok THEN Ended(@, "Done", "published") ELSE Ended(@, "Error", "error")]
    /\ UNCHANGED <<posted_links, disk, loaded, handlers, rss, loop>>

(***************************************************************************)
(* rss_loop.                                                               *)
(***************************************************************************)
\* A feed entry: media_content is [kind, urls] with kind "absent", "list" or
\* "dict" and urls the "url" of each item (None when the item has none);
\* enclosures lists the href of each enclosure, links the [type, href] of
\* each link, and summary_imgs the src of each <img> of the summary (None for
\* a tag without src).
NoMedia == [kind |-> "absent", urls |-> <<>>]

Entry(title, link, id) ==
    [title |-> title, link |-> link, id |-> id, media_content |-> NoMedia,
     enclosures |-> <<>>, links |-> <<>>, summary_imgs |-> <<>>]

Parsed(entries) == [ok |-> TRUE, entries |-> entries]
ParseError == [ok |-> FALSE, entries |-> <<>>]

eStorm ==
    [Entry(<<"S","t","o","r","m">>, <<"x","1">>, None)
        EXCEPT !.media_content = [kind |-> "list", urls |-> <<<<"m","1">>>>],
               !.enclosures = <<<<"e",".","p","n","g">>>>]
eStormU ==
    [Entry(<<" ","S","T","O","R","M"," ">>, <<"x","1">>, None)
        EXCEPT !.links = <<[type |-> <<"t","e","x","t">>, href |-> <<"l","0">>],
                           [type |-> <<"i","m","a","g","e","/","x">>,
                            href |-> <<"l","1">>]>>,
               !.summary_imgs = <<<<"s","1">>>>]
eFog ==
    [Entry(<<"F","o","g">>, None, <<"x","2">>)
        EXCEPT !.media_content = [kind |-> "list", urls |-> <<None>>],
               !.enclosures = <<<<"f",".","t","x","t">>, <<"f",".","J","P","G">>>>]
eNoLink == Entry(<<"H","a","i","l">>, None, None)
eNoTitle ==
    [Entry(None, <<"x","3">>, None) EXCEPT !.summary_imgs = <<<<"s","3">>>>]
eBlank == Entry(<<" ">>, <<"x","4">>, None)
eLate == Entry(<<"L","a","t","e">>, <<"x","7">>, None)

\* what feedparser.parse(feed_url) can return for one poll of one feed
FeedOutcomes == {
    ParseError,
    Parsed(<<eStorm>>),
    Parsed(<<eStormU, eFog>>),
    Parsed(<<eNoLink, eNoTitle, eStorm>>) }

\* a feed of seven entries, and a feed that cannot be parsed
LongFeeds == {
    ParseError,
    Parsed(<<eNoLink, eFog, eBlank, eStorm, eStorm, eStorm, eLate>>) }

\* entry.get("link") or entry.get("id")
EntryLink(e) ==
    IF e.link # None /\ e.link # <<>> THEN e.link
    ELSE IF e.id # None /\ e.id # <<>> THEN e.id
    ELSE None

\* the default title of an entry without one
Untitled == <<"B","e","z"," ","z","a","g","o","l","o","v","k","a">>

\* entry.get("title", "Без заголовка").strip()
EntryTitle(e) == strip(IF e.title # None THEN e.title ELSE Untitled)

\* NoLink also passing over the entries without a title
NoLinkOrTitle(e) == EntryLink(e) = None \/ e.title = None

\* `if not link: continue`
NoLink(e) == EntryLink(e) = None

\* FirstEntries without the cut: every entry of the feed
FirstEntriesAll(entries) == entries

\* entries[:6]
FirstEntries(entries) == Take(entries, 6)

(***************************************************************************)
(* Image resolution of a feed entry.                                       *)
(***************************************************************************)
StartsWith(pre, t) == Len(t) >= Len(pre) /\ SubSeq(t, 1, Len(pre)) = pre

EndsWith(suf, t) ==
    Len(t) >= Len(suf) /\ SubSeq(t, Len(t) - Len(suf) + 1, Len(t)) = suf

ImageExts == { <<".","j","p","g">>, <<".","j","p","e","g">>, <<".","p","n","g">>,
               <<".","g","i","f">>, <<".","w","e","b","p">> }

\* `if x`: neither None nor the empty string
Truthy(x) == x # None /\ x # <<>>

\* the first element of seq that is truthy, or None
FirstThat(seq) ==
    LET hits == {i \in 1..Len(seq) : Truthy(seq[i])}
    IN  IF hits = {} THEN None
        ELSE seq[CHOOSE i \in hits : \A j \in hits : i <= j]

\* the enclosures step: the first href ending in an image extension
EnclosureImage(e) ==
    LET IsImage(href) == Truthy(href) /\ \E ext \in ImageExts : EndsWith(ext, lower(href))
        hrefs == [i \in 1..Len(e.enclosures) |->
                     IF IsImage(e.enclosures[i]) THEN e.enclosures[i] ELSE None]
    IN  FirstThat(hrefs)

\* the links step: the href of the first link whose type starts with "image"
LinkImage(e) ==
    LET IsImage(l) == Truthy(l.href) /\ Truthy(l.type)
                          /\ StartsWith(<<"i","m","a","g","e">>, l.type)
        hrefs == [i \in 1..Len(e.links) |->
                     IF IsImage(e.links[i]) THEN e.links[i].href ELSE None]
    IN  FirstThat(hrefs)

\* soup.find("img") and its src: the first <img>, when it has a src
FirstImgSrc(imgs) == IF imgs # <<>> /\ Truthy(imgs[1]) THEN imgs[1] ELSE None

get_image_from_rss_entry(entry) ==
    IF entry.media_content.kind \in {"list", "dict"} /\ entry.media_content.urls # <<>>
    THEN entry.media_content.urls[1]
    ELSE IF EnclosureImage(entry) # None THEN EnclosureImage(entry)
    ELSE IF LinkImage(entry) # None THEN LinkImage(entry)
    ELSE FirstImgSrc(entry.summary_imgs)

\* What session.get(link) can come to: it raises or times out ("error");
\* a status other than 200 ("status"); or a page with the content of its
\* og:image meta tag (None when absent) and the src of each of its <img>.
FetchFailed == [kind |-> "error", og |-> None, imgs |-> <<>>]

FetchOutcomes == {
    FetchFailed,
    [kind |-> "page", og |-> <<"o","g">>, imgs |-> <<<<"p","1">>>>],
    [kind |-> "page", og |-> None, imgs |-> <<<<"p","1">>>>] }

fetch_og_image(page) ==
    IF page.kind # "page" THEN None
    ELSE IF Truthy(page.og) THEN page.og
    ELSE FirstImgSrc(page.imgs)

\* rss_loop: the image of the embed, None when there is none
ResolveImage(entry, page) ==
    LET image == get_image_from_rss_entry(entry)
        found == IF Truthy(image) THEN image ELSE fetch_og_image(page)
    IN  IF Truthy(found) THEN found ELSE None

RssCard(cycle, e, image) ==
    [origin |-> "RSS", by |-> cycle, key |-> make_rss_key(EntryTitle(e), EntryLink(e)),
     raw |-> None, text |-> None, ai_failed |-> FALSE,
     title |-> Take(EntryTitle(e), 256), body |-> <<>>, url |-> EntryLink(e),
     image |-> image]

\* rss_loop from entry r.i of feed r.f up to its next await: entries without a
\* link and entries whose key is in posted_links are passed over, a feed
\* whose parse raised is passed over, and the run stops at the ch.send of
\* the first entry to publish (pc "send") or after the last feed (pc "end")
RECURSIVE RssRun(_, _, _)
RssRun(r, posted, page) ==
    IF r.f > MaxFeeds THEN [r EXCEPT !.pc = "end"]
    ELSE LET entries == FirstEntries(r.feeds[r.f].entries)
         IN  IF ~r.feeds[r.f].ok \/ r.i > Len(entries)
             THEN RssRun([r EXCEPT !.f = @ + 1, !.i = 1], posted, page)
             ELSE LET e == entries[r.i]
                  IN  IF NoLink(e)
                      THEN RssRun([r EXCEPT !.i = @ + 1], posted, page)
                      ELSE IF make_rss_key(EntryTitle(e), EntryLink(e)) \in posted
                      THEN RssRun([r EXCEPT !.i = @ + 1], posted, page)
                      ELSE [r EXCEPT !.pc = "send",
                                     !.resolved = @ \cup {<<r.f, r.i>>},
                                     !.card = RssCard(r.cycle, e, ResolveImage(e, page))]

\* the suspension of the loop at r, or the end of the iteration: save_posted
\* when a key was added
RssSuspend(r, outcome) ==
    IF r.pc = "end"
    THEN /\ rss' = IdleRss(r.cycle)
         /\ disk' = IF r.new_added THEN save_posted(disk, posted_links, outcome)
                    ELSE disk
    ELSE /\ rss' = r
         /\ disk' = disk

\* the timer fires while the bot is not ready or the channel is not found:
\* the iteration returns at once
RssIdleTick(ready, autoFound) ==
    /\ loop.tasks > 0
    /\ rss.pc = "idle"
    /\ rss.cycle < MaxCycles
    /\ ~ready \/ ~autoFound
    /\ rss' = IdleRss(rss.cycle + 1)
    /\ UNCHANGED <<posted_links, disk, loaded, handlers, delivered, workflows, loop>>

\* the timer fires: one iteration of rss_loop up to its first await
RssTick(feeds, page, outcome) ==
    /\ loop.tasks > 0
    /\ rss.pc = "idle"
    /\ rss.cycle < MaxCycles
    /\ RssSuspend(RssRun([rss EXCEPT !.pc = "run", !.cycle = @ + 1, !.feeds = feeds,
                                     !.f = 1, !.i = 1], posted_links, page), outcome)
    /\ UNCHANGED <<posted_links, loaded, handlers, delivered, workflows, loop>>

\* RssCommit adding the key whether or not ch.send raised
RssCommitAlways(posted, unique_key, ok) == posted \cup {unique_key}

\* posted_links after ch.send returned (ok) or raised
RssCommit(posted, unique_key, ok) == IF ok THEN posted \cup {unique_key} ELSE posted

\* ch.send returns: the key is added and the loop sleeps one second; or it
\* raises: the error is logged and the loop goes on with the next entry
RssSendReturn(ok, page, outcome) ==
    /\ rss.pc = "send"
    /\ posted_links' = RssCommit(posted_links, rss.card.key, ok)
    /\ IF ok
       THEN /\ delivered' = delivered (+) SetToBag({rss.card})
            /\ rss' = [rss EXCEPT !.pc = "sleep", !.new_added = TRUE]
            /\ disk' = disk
       ELSE /\ delivered' = delivered
            /\ RssSuspend(RssRun([rss EXCEPT !.i = @ + 1, !.card = NoCard],
                                 posted_links', page), outcome)
    /\ UNCHANGED <<loaded, handlers, workflows, loop>>

\* asyncio.sleep(1.0) returns: on to the next entry
RssWake(page, outcome) ==
    /\ rss.pc = "sleep"
    /\ RssSuspend(RssRun([rss EXCEPT !.i = @ + 1, !.card = NoCard], posted_links,
                         page), outcome)
    /\ UNCHANGED <<posted_links, loaded, handlers, delivered, workflows, loop>>

(***************************************************************************)
(* Specifications.                                                         *)
(***************************************************************************)
ChatNext ==
    \/ \E message \in NewsMessages : Arrive(message, TRUE)
    \/ \E h \in 1..Len(handlers), resp \in AIResponses(AIContents),
          targetFound \in BOOLEAN : AIReturn(h, resp, targetFound)
    \/ \E h \in 1..Len(handlers), ok \in BOOLEAN, outcome \in SaveOutcomes :
           SendReturn(h, ok, outcome)

RssNext ==
    \/ \E ready \in BOOLEAN, autoFound \in BOOLEAN : RssIdleTick(ready, autoFound)
    \/ \E feeds \in [1..MaxFeeds -> FeedOutcomes], outcome \in SaveOutcomes :
           RssTick(feeds, FetchFailed, outcome)
    \/ \E ok \in BOOLEAN, outcome \in SaveOutcomes :
           RssSendReturn(ok, FetchFailed, outcome)
    \/ \E outcome \in SaveOutcomes : RssWake(FetchFailed, outcome)

\* the RSS loop on a long feed, with every outcome of the page fetch
FeedNext ==
    \/ \E ready \in BOOLEAN, autoFound \in BOOLEAN : RssIdleTick(ready, autoFound)
    \/ \E feeds \in [1..MaxFeeds -> LongFeeds], page \in FetchOutcomes :
           RssTick(feeds, page, "ok")
    \/ \E ok \in BOOLEAN, page \in FetchOutcomes : RssSendReturn(ok, page, "ok")
    \/ \E page \in FetchOutcomes : RssWake(page, "ok")

ManualNext ==
    \/ \E message \in OperatorMessages, targetFound \in BOOLEAN :
           Arrive(message, targetFound)
    \/ \E w \in 1..Len(workflows) : Timeout(w)
    \/ \E w \in 1..Len(workflows), ok \in BOOLEAN : ManualSendReturn(w, ok)

\* the chat path alone
SpecChat == Init /\ [][ChatNext]_vars

\* the RSS loop alone
SpecRss == Init /\ [][RssNext]_vars

SpecFeed == Init /\ [][FeedNext]_vars

\* the RSS loop from the start of the process, with reconnects
BootFeeds == { ParseError, Parsed(<<eStorm>>), Parsed(<<eStormU, eFog>>) }

BootNext ==
    \/ OnReady
    \/ \E ready \in BOOLEAN, autoFound \in BOOLEAN : RssIdleTick(ready, autoFound)
    \/ \E feeds \in [1..MaxFeeds -> BootFeeds] : RssTick(feeds, FetchFailed, "ok")
    \/ \E ok \in BOOLEAN : RssSendReturn(ok, FetchFailed, "ok")
    \/ RssWake(FetchFailed, "ok")

SpecBoot == InitBoot /\ [][BootNext]_vars

\* the !news workflow alone
SpecManual == Init /\ [][ManualNext]_vars

\* The three paths interleaved, on fewer inputs.
MixMessages == {
    Msg("user", "news", <<"a"," ","b"," ","c">>, <<>>),
    Msg("op", "ops", <<"!","n","e","w","s">>, <<>>),
    Msg("op", "ops", <<"a"," ","b"," ","c">>, <<>>) }

MixResponses == {[kind |-> "status", content |-> <<>>],
                 [kind |-> "content", content |-> <<"x"," ","y"," ","z">>]}

MixFeeds == { Parsed(<<eStorm>>) }

\* news messages, polls and !news invocations so far
MixStarted == Len(handlers) + rss.cycle + Len(workflows)

MixNext ==
    \/ \E message \in MixMessages, targetFound \in BOOLEAN :
           /\ (message.channel = NEWS_CHANNEL_ID \/ IsNewsCommand(message.content))
                  => MixStarted < MixEvents
           /\ Arrive(message, targetFound)
    \/ \E h \in 1..Len(handlers), resp \in MixResponses, targetFound \in BOOLEAN :
           AIReturn(h, resp, targetFound)
    \/ \E h \in 1..Len(handlers), ok \in BOOLEAN : SendReturn(h, ok, "ok")
    \/ \E w \in 1..Len(workflows) : Timeout(w)
    \/ \E w \in 1..Len(workflows), ok \in BOOLEAN : ManualSendReturn(w, ok)
    \/ \E feeds \in [1..MaxFeeds -> MixFeeds] :
           MixStarted < MixEvents /\ RssTick(feeds, FetchFailed, "ok")
    \/ \E ok \in BOOLEAN : RssSendReturn(ok, FetchFailed, "ok")
    \/ RssWake(FetchFailed, "ok")

Spec == Init /\ [][MixNext]_vars

(***************************************************************************)
(* Properties.                                                             *)
(***************************************************************************)
\* the distinct cards delivered by one path
Cards(origin) == {c \in BagToSet(delivered) : c.origin = origin}

\* the keys of the cards delivered by the chat and RSS paths
DeliveredKeys == {c.key : c \in Cards("AI") \cup Cards("RSS")}

\* C1: of the chat messages whose rewritten text gives the same chat key,
\* only the first is delivered to the target channel, under every
\* interleaving of the on_message handlers: no key is delivered twice.
C1_OnlyFirstDelivered ==
    \A c1, c2 \in Cards("AI") :
        c1.key = c2.key => (c1 = c2 /\ CopiesIn(c1, delivered) = 1)

\* the (lowercased trimmed title, link) pair of an RSS card
RssPair(c) == <<lower(strip(c.title)), c.url>>

\* C2: once an entry with a given (lowercased trimmed title, link) pair has
\* been delivered by the RSS loop, no entry with the same pair is delivered
\* again in the same or a later poll cycle, and the key recorded for it is
\* RSS|<lowercased title>|<link>.
C2_NoRssRedelivery ==
    /\ \A c1, c2 \in Cards("RSS") :
           RssPair(c1) = RssPair(c2) => (c1 = c2 /\ CopiesIn(c1, delivered) = 1)
    /\ \A c \in Cards("RSS") :
           <<"R","S","S","|">> \o lower(c.title) \o <<"|">> \o c.url \in posted_links

\* the entries of the current poll that the loop has already gone past
EntriesPassed ==
    {e \in UNION {{FirstEntries(rss.feeds[f].entries)[i] :
                       i \in {j \in 1..Len(FirstEntries(rss.feeds[f].entries)) :
                                  f < rss.f \/ j < rss.i}} :
                  f \in {g \in 1..Len(rss.feeds) : g <= rss.f}} :
        EntryLink(e) # None}

\* C2 witness: the second poll has gone past an entry whose pair was
\* delivered by the first poll, and is publishing another entry.
C2_Witness ==
    /\ rss.cycle = 2
    /\ rss.pc = "send"
    /\ \E c \in Cards("RSS"), e \in EntriesPassed :
           /\ c.by = 1
           /\ RssPair(c) = <<lower(EntryTitle(e)), EntryLink(e)>>
           /\ c.title # EntryTitle(e)

\* C3: a key is in posted_links beyond the keys loaded at startup iff a card
\* with that key was delivered by the chat or the RSS path.
C3_StoreIffDelivered ==
    /\ posted_links \ loaded \subseteq DeliveredKeys
    /\ DeliveredKeys \subseteq posted_links

\* C3 witness: both paths have delivered, and a chat send has failed or
\* found no target channel, leaving no key.
C3_Witness ==
    /\ Cards("AI") # {}
    /\ Cards("RSS") # {}
    /\ \E h \in 1..Len(handlers) : handlers[h].branch \in {"send_failed", "no_target"}
    /\ Cardinality(posted_links \ loaded) = 2

\* C4: in the RSS loop every key delivered earlier in the poll cycle is in
\* the durable store before the next entry is processed.
C4_PersistedBeforeNextEntry ==
    rss.pc = "send" =>
        \A c \in Cards("RSS") :
            c.by = rss.cycle => (disk.state = "ok" /\ c.key \in disk.keys)

\* the last reply the workflow received is the cancellation word
SaidCancel(wf) == lower(wf.reply) = <<"o","t","m","e","n","a">>

\* C5: a reply equal to the cancellation word at any of the four prompts
\* aborts the workflow: whenever the last reply a workflow received was the
\* cancellation word, the workflow is cancelled.
C5_CancelAtAnyPrompt ==
    \A w \in 1..Len(workflows) :
        SaidCancel(workflows[w]) => workflows[w].pc = "Cancelled"

Prompts == <<"ask_title", "ask_body", "ask_source", "ask_image">>

PromptOf(pc) == CHOOSE k \in 1..4 :
    <<"AwaitTitle", "AwaitBody", "AwaitSourceLink", "AwaitImage">>[k] = pc

\* C5 as amended: a reply equal to the cancellation word (in any letter
\* case) at the title or the body prompt aborts the workflow at once, with
\* no further prompt and no delivery; at the source-link and image prompts
\* the word is taken as the value of the field and the workflow goes on.
C5_CancelAtTitleOrBody ==
    \A w \in 1..Len(workflows) :
        LET wf == workflows[w]
        IN  /\ (SaidCancel(wf) /\ wf.at \in {"AwaitTitle", "AwaitBody"})
                   => /\ wf.pc = "Cancelled"
                      /\ wf.sent = SubSeq(Prompts, 1, PromptOf(wf.at)) \o <<"cancelled">>
            /\ wf.pc = "Cancelled"
                   => SaidCancel(wf) /\ wf.at \in {"AwaitTitle", "AwaitBody"}
            /\ (SaidCancel(wf) /\ wf.at \in {"AwaitSourceLink", "AwaitImage"})
                   => wf.pc # "Cancelled" /\ Len(wf.sent) >= 4

\* C5 witness: a workflow cancelled at the body prompt, with mixed case.
C5_Witness ==
    \E w \in 1..Len(workflows) :
        /\ workflows[w].pc = "Cancelled"
        /\ workflows[w].at = "AwaitBody"
        /\ workflows[w].reply # CancelWord

\* the states a workflow can move to in one step
Successors(pc) ==
    CASE pc = "AwaitTitle" -> {"AwaitBody", "Cancelled", "Aborted"}
      [] pc = "AwaitBody" -> {"AwaitSourceLink", "Cancelled", "Aborted"}
      [] pc = "AwaitSourceLink" -> {"AwaitImage", "Aborted"}
      [] pc = "AwaitImage" -> {"Publish", "NoTarget", "Aborted"}
      [] pc = "Publish" -> {"Done", "Error"}
      [] OTHER -> {}

\* what a workflow has sent to the operator agrees with the state it is in
SentAgrees(wf) ==
    CASE wf.pc \in AwaitStates -> wf.sent = SubSeq(Prompts, 1, PromptOf(wf.pc))
      [] wf.pc = "Publish" -> wf.sent = Prompts
      [] wf.pc = "Done" -> wf.sent = Prompts \o <<"published">>
      [] wf.pc = "Aborted" ->
             \E k \in 1..4 : wf.sent = SubSeq(Prompts, 1, k) \o <<"timeout_notice">>
      [] OTHER -> TRUE

\* C6: the workflow moves through AwaitTitle, AwaitBody, AwaitSourceLink,
\* AwaitImage, Publish in that order, and a timeout in any of the four await
\* states ends it in the terminal Aborted state, with the notice as the last
\* thing sent to the operator, no later prompt and no delivery.
C6_OrderAndTimeout ==
    /\ [](\A w \in 1..Len(workflows) :
            /\ SentAgrees(workflows[w])
            /\ ("timeout_notice" \in {workflows[w].sent[k] :
                                          k \in 1..Len(workflows[w].sent)})
                   => workflows[w].pc = "Aborted")
    /\ [][\A w \in 1..Len(workflows) :
            /\ workflows'[w].pc # workflows[w].pc
                   => workflows'[w].pc \in Successors(workflows[w].pc)
            /\ workflows[w].pc = "Aborted" => workflows'[w] = workflows[w]
            /\ (workflows[w].pc # "Aborted" /\ workflows'[w].pc = "Aborted")
                   => delivered' = delivered]_vars

\* C6 witness: a workflow timed out at the image prompt, after all four
\* prompts.
C6_Witness ==
    \E w \in 1..Len(workflows) :
        /\ workflows[w].pc = "Aborted"
        /\ workflows[w].sent = Prompts \o <<"timeout_notice">>

\* C7: the manual workflow never reads and never changes the dedup store,
\* in memory or on disk: a workflow at Publish can always deliver, whatever
\* the store holds, and no step that moves a workflow or delivers a manual
\* card changes posted_links or the file.
C7_ManualLeavesStoreAlone ==
    /\ [](\A w \in 1..Len(workflows) :
            workflows[w].pc = "Publish" => ENABLED ManualSendReturn(w, TRUE))
    /\ [][((\E w \in 1..Len(workflows) : workflows'[w] # workflows[w])
             \/ (\E c \in {d \in BagToSet(delivered') : d.origin = "MANUAL"} :
                    CopiesIn(c, delivered') > CopiesIn(c, delivered)))
            => (posted_links' = posted_links /\ disk' = disk)]_vars

\* C7 witness: the same manual title and body delivered twice, while the chat
\* key of that body is in the store.
C7_Witness ==
    \E c \in Cards("MANUAL") :
        /\ CopiesIn(c, delivered) = 2
        /\ make_ai_key(c.text) \in posted_links

\* C8: at most one workflow per invoking operator (same author, same
\* channel) is suspended awaiting a reply.
C8_OneWaitingPerOperator ==
    \A w1, w2 \in 1..Len(workflows) :
        (/\ workflows[w1].pc \in AwaitStates
         /\ workflows[w2].pc \in AwaitStates
         /\ workflows[w1].author = workflows[w2].author
         /\ workflows[w1].channel = workflows[w2].channel) => w1 = w2

\* C9: when the rewrite call fails for a message that passed the pre-rewrite
\* filter, the handler carries the original text on unmodified: it is never
\* dropped by the post-rewrite check, the text it is about to send is the
\* original text, and the card delivered for it is built from that text.
C9_FailureKeepsOriginal ==
    /\ \A h \in 1..Len(handlers) :
           handlers[h].ai_failed =>
               /\ handlers[h].branch # "ai_insufficient"
               /\ handlers[h].pc = "send" => handlers[h].rewritten = handlers[h].text
    /\ \A c \in Cards("AI") :
           c.ai_failed => /\ c.text = c.raw
                          /\ c.title = AITitle(c.raw)
                          /\ c.body = AIBody(c.raw)

\* C9 witness: a card delivered after a failed rewrite, carrying the
\* original text.
C9_Witness ==
    \E c \in Cards("AI") : c.ai_failed /\ c.text = c.raw /\ c.raw # <<>>

\* C10: a chat message is delivered only if its raw text is non-empty, has
\* no banned term, has at least 3 tokens and no insufficiency phrase, and its
\* rewritten text has at least 3 tokens and no insufficiency phrase; a
\* message rejected before the rewrite makes no rewrite request, and no
\* message makes more than one.
C10_DeliveryOnlyIfFiltered ==
    /\ \A c \in Cards("AI") :
           /\ c.raw # <<>>
           /\ \A w \in BANNED_WORDS : ~Contains(w, lower(c.raw))
           /\ NumTokens(c.raw) >= 3
           /\ ~HasPhrase(lower(c.raw))
           /\ NumTokens(c.text) >= 3
           /\ ~HasPhrase(lower(c.text))
    /\ \A h \in 1..Len(handlers) :
           /\ handlers[h].requests <= 1
           /\ handlers[h].branch \in {"empty", "banned", "insufficient"}
                  => handlers[h].requests = 0
           /\ handlers[h].branch \in {"ai_insufficient", "published"}
                  => handlers[h].requests = 1

\* C10 witness: one message delivered with a rewritten text, another dropped
\* by the post-rewrite check after its one request.
C10_Witness ==
    /\ \E c \in Cards("AI") : c.text # c.raw
    /\ \E h \in 1..Len(handlers) :
           handlers[h].branch = "ai_insufficient" /\ handlers[h].requests = 1

\* C11: for every news-channel message not authored by the bot,
\* process_commands is invoked exactly once, whichever branch on_message
\* takes: a handler that has returned has called it once, one still
\* suspended has not called it yet, and every command of an operator (the
\* operators' messages of the news channel are all the command) has started
\* its workflow or is still to be processed by a suspended handler.
C11_CommandsExactlyOnce ==
    /\ \A h \in 1..Len(handlers) :
           handlers[h].author # BotUser =>
               handlers[h].cmds = (IF handlers[h].pc = "done" THEN 1 ELSE 0)
    /\ Len(workflows) + PendingCommands =
           Cardinality({h \in 1..Len(handlers) : handlers[h].author \in Operators})

\* C11 witness: one message dropped as a duplicate and an operator's command
\* whose delivery failed, the command having started its workflow.
C11_Witness ==
    /\ \E h \in 1..Len(handlers) :
           handlers[h].branch = "duplicate" /\ handlers[h].cmds = 1
    /\ \E h \in 1..Len(handlers) :
           /\ handlers[h].branch = "send_failed"
           /\ handlers[h].author \in Operators
    /\ Len(workflows) = 1

\* the places <<feed, entry>> of the entries a poll looks at
Positions(r) ==
    UNION {{<<f, i>> : i \in 1..Len(FirstEntries(r.feeds[f].entries))} :
               f \in 1..Len(r.feeds)}

Before(p, q) == p[1] < q[1] \/ (p[1] = q[1] /\ p[2] < q[2])

EntryAt(r, p) == FirstEntries(r.feeds[p[1]].entries)[p[2]]

\* the place the loop is at; <<0, 0>> between two polls
Here(r) == IF r.pc = "idle" THEN <<0, 0>> ELSE <<r.f, r.i>>

\* an entry the loop has to publish: it has a link and its key is not stored
Publishable(e, posted) ==
    /\ EntryLink(e) # None
    /\ make_rss_key(EntryTitle(e), EntryLink(e)) \notin posted

\* C12: when the delivery of an RSS entry fails, its key is not added to the
\* store and the loop goes on with the next entry of the same cycle; and
\* whenever the loop moves, in this or a later cycle, it stops to attempt the
\* first entry after its place that has a link and no key in the store, so an
\* entry whose delivery failed is attempted again when a later poll meets it.
C12_FailedSendRetried ==
    [][/\ (rss.pc = "send" /\ rss' # rss /\ delivered' = delivered)
            => /\ posted_links' = posted_links
               /\ rss.card.key \notin posted_links'
               /\ rss'.pc \in {"send", "idle"}
               /\ rss'.pc = "send" => rss'.cycle = rss.cycle
       /\ (rss' # rss /\ rss'.pc = "send")
            => /\ Before(Here(rss), Here(rss'))
               /\ Publishable(EntryAt(rss', Here(rss')), posted_links')
               /\ rss'.card = RssCard(rss'.cycle, EntryAt(rss', Here(rss')),
                                      rss'.card.image)
               /\ \A p \in Positions(rss') :
                      (Before(Here(rss), p) /\ Before(p, Here(rss')))
                          => ~Publishable(EntryAt(rss', p), posted_links')
       /\ (rss.pc # "idle" /\ rss'.pc = "idle")
            => \A p \in Positions(rss) :
                   Before(Here(rss), p) => ~Publishable(EntryAt(rss, p), posted_links')
      ]_vars

\* C12 witness: the loop is attempting an entry after it went past an
\* earlier entry of the same poll that has a link and whose key is still not
\* in the store: the delivery of that entry failed.
C12_Witness ==
    /\ rss.pc = "send"
    /\ \E e \in EntriesPassed : Publishable(e, posted_links)

\* C13: every card delivered by any of the three paths has a title that is
\* non-empty after trimming.
C13_TitlesNonEmpty ==
    \A c \in BagToSet(delivered) : strip(c.title) # <<>>

\* the entry the loop is at
Current == EntryAt(rss, Here(rss))

\* C14: a feed entry that lacks a link or lacks a title is skipped: the
\* loop never delivers such an entry.
C14_NoLinkOrNoTitleSkipped ==
    rss.pc = "sleep" => (EntryLink(Current) # None /\ Current.title # None)

\* C14 as amended: an entry with neither link nor id is skipped, with no
\* delivery attempt and no key, and only that entry: the loop stops at the
\* first later entry of the poll that has a link and no stored key.  An
\* entry that lacks a title is not skipped: it is attempted under the
\* default title.
C14_NoLinkSkipped ==
    /\ [](/\ rss.pc \in {"send", "sleep"}
              => /\ EntryLink(Current) # None
                 /\ rss.card.url = EntryLink(Current)
                 /\ Current.title = None => rss.card.title = Untitled
          /\ \A c \in Cards("RSS") : c.url # None /\ c.key \in posted_links)
    /\ [][/\ (rss' # rss /\ rss'.pc = "send")
               => \A p \in Positions(rss') :
                      (Before(Here(rss), p) /\ Before(p, Here(rss')))
                          => \/ EntryLink(EntryAt(rss', p)) = None
                             \/ ~Publishable(EntryAt(rss', p), posted_links')
          /\ (rss.pc # "idle" /\ rss'.pc = "idle")
               => \A p \in Positions(rss) :
                      Before(Here(rss), p)
                          => \/ EntryLink(EntryAt(rss, p)) = None
                             \/ ~Publishable(EntryAt(rss, p), posted_links')
         ]_vars

\* C14 witness: in one feed the loop went past an entry without link,
\* delivered an entry without title under the default title, and is
\* attempting the entry after it.
C14_Witness ==
    /\ rss.pc = "send"
    /\ \E j \in 1..(rss.i - 1) : EntryLink(EntryAt(rss, <<rss.f, j>>)) = None
    /\ \E c \in Cards("RSS") : c.by = rss.cycle /\ c.title = Untitled

\* C15: a message authored by the bot itself never triggers the news
\* pipeline: its handler returns at once, having made no rewrite request,
\* no command call and no save, and the step in which it arrives changes
\* neither the store, nor the file, nor what has been delivered.
C15_OwnMessagesIgnored ==
    /\ [](\A h \in 1..Len(handlers) :
            handlers[h].author = BotUser =>
                /\ handlers[h].pc = "done"
                /\ handlers[h].branch = "own"
                /\ handlers[h].requests = 0
                /\ handlers[h].cmds = 0
                /\ handlers[h].saved = "none")
    /\ [][(/\ Len(handlers') > Len(handlers)
           /\ handlers'[Len(handlers')].author = BotUser)
              => /\ posted_links' = posted_links
                 /\ disk' = disk
                 /\ delivered' = delivered
                 /\ workflows' = workflows]_vars

\* C15 witness: the bot has published a card and a message of its own has
\* arrived in the news channel.
C15_Witness ==
    /\ Cards("AI") # {}
    /\ \E h \in 1..Len(handlers) :
           handlers[h].author = BotUser /\ handlers[h].branch = "own"

\* what each step of the image resolution yields for an entry, in order:
\* media_content, enclosures, typed links, the first <img> of the summary
ImageSteps(e) ==
    << IF e.media_content.urls # <<>> THEN e.media_content.urls[1] ELSE None,
       EnclosureImage(e), LinkImage(e), FirstImgSrc(e.summary_imgs) >>

\* C16: the image of an RSS card is the URL of the first step, in the fixed
\* order, that yields one; a step that yields none falls through to the next
\* step.  Whenever one of the steps that read the entry yields a URL, the
\* card being sent carries the URL of the first such step.
C16_FirstHitWins ==
    rss.pc = "send" =>
        (FirstThat(ImageSteps(Current)) # None
            => rss.card.image = FirstThat(ImageSteps(Current)))

\* the key of the entry at place p of the poll r
KeyAt(r, p) == make_rss_key(EntryTitle(EntryAt(r, p)), EntryLink(EntryAt(r, p)))

\* C17: in one poll only the first 6 entries of each feed are considered:
\* every entry whose image is resolved and whose delivery is attempted is
\* among the first 6 of its feed, so at most 6 are attempted per feed, and
\* every card of the running poll comes from such an entry; and image
\* resolution is begun only for the entry then attempted, whose key is not
\* in the store: an entry with a stored key is passed over before it.
C17_FirstSixOnly ==
    /\ [](/\ \A p \in rss.resolved : p[2] <= 6
          /\ \A f \in 1..Len(rss.feeds) :
                 Cardinality({p \in rss.resolved : p[1] = f}) <= 6
          /\ rss.pc \in {"send", "sleep"} => Here(rss) \in rss.resolved
          /\ rss.pc # "idle" =>
                 \A c \in Cards("RSS") :
                     c.by = rss.cycle =>
                         \E p \in rss.resolved : p[2] <= 6 /\ c.key = KeyAt(rss, p))
    /\ [][\A p \in rss'.resolved \ rss.resolved :
              /\ p = Here(rss')
              /\ rss'.pc = "send"
              /\ KeyAt(rss', p) \notin posted_links]_vars

\* C17 witness: the loop is in the second feed after a first feed of seven
\* entries, of which one of the first six was passed over unresolved because
\* its key was stored, and the seventh, whose key is not stored, was never
\* attempted.
C17_Witness ==
    /\ rss.pc = "send"
    /\ rss.f > 1
    /\ Len(rss.feeds[1].entries) > 6
    /\ Publishable(rss.feeds[1].entries[7], posted_links)
    /\ \E i \in 1..6 : /\ <<1, i>> \notin rss.resolved
                       /\ EntryLink(EntryAt(rss, <<1, i>>)) # None
                       /\ KeyAt(rss, <<1, i>>) \in posted_links

\* C18: a failed write of save_posted is not fatal and leaves the in-memory
\* store as it is: the handler still finishes as published and its key is
\* a member.  Every write that succeeds writes the whole in-memory set, so
\* the keys an earlier failed write left out reach the file then.
C18_FailedSaveHarmless ==
    /\ [](\A h \in 1..Len(handlers) :
            handlers[h].saved # "none" => handlers[h].branch = "published")
    /\ [][/\ \A h \in 1..Len(handlers) :
                 (handlers[h].pc = "send" /\ handlers'[h].saved # "none")
                     => /\ handlers[h].ai_key \in posted_links'
                        /\ posted_links \subseteq posted_links'
                        /\ handlers'[h].saved = "ok"
                               => disk' = [state |-> "ok", keys |-> posted_links']
                        /\ handlers'[h].saved = "open_failed" => disk' = disk
                        /\ handlers'[h].saved = "dump_failed" => disk'.state = "corrupt"
          /\ (disk' # disk /\ disk'.state = "ok") => disk'.keys = posted_links'
         ]_vars

\* C18 witness: two messages were published; the save after one of them
\* failed, the save after the other succeeded, and the file holds the whole
\* store, the key of the failed save included.
C18_Witness ==
    /\ \E h1, h2 \in 1..Len(handlers) :
           /\ handlers[h1].saved \in {"open_failed", "dump_failed"}
           /\ handlers[h2].saved = "ok"
    /\ Cardinality(posted_links \ loaded) = 2
    /\ disk = [state |-> "ok", keys |-> posted_links]

\* C19: the in-memory store only grows: no step of a chat handler, an RSS
\* cycle or a manual workflow removes a key, and a chat or RSS add of a key
\* that is already present leaves the store as it was.
C19_StoreOnlyGrows ==
    [][/\ posted_links \subseteq posted_links'
       /\ \A h \in 1..Len(handlers) :
              (/\ handlers[h].pc = "send"
               /\ handlers'[h].pc = "done"
               /\ handlers[h].ai_key \in posted_links) => posted_links' = posted_links
       /\ (rss.pc = "send" /\ rss' # rss)
              => posted_links' \subseteq posted_links \cup {rss.card.key}
      ]_vars

\* C19 witness: the same chat key was added twice, by two deliveries of the
\* same card, next to an RSS key.
C19_Witness ==
    /\ \E c \in Cards("AI") : CopiesIn(c, delivered) = 2 /\ c.key \in posted_links
    /\ \E c \in Cards("RSS") : c.key \in posted_links

\* C20: at most one RSS poll cycle executes at any time: however often
\* on_ready fires, at most one loop task runs, and none polls before the
\* first on_ready; a new cycle begins only when the one before it has ended;
\* and a cycle that returns at once, the bot not ready or the channel not
\* found, delivers nothing and leaves the store and the file alone.
C20_OneCycleAtATime ==
    /\ [](/\ loop.tasks <= 1
          /\ loop.tasks = (IF loop.readies > 0 THEN 1 ELSE 0)
          /\ loop.tasks = 0 => rss = IdleRss(0))
    /\ [][/\ rss'.cycle # rss.cycle
               => (rss.pc = "idle" /\ rss'.cycle = rss.cycle + 1 /\ loop.tasks = 1)
          /\ (rss.pc = "idle" /\ rss'.pc = "idle")
               => /\ posted_links' = posted_links
                  /\ delivered' = delivered
                  /\ rss.new_added = rss'.new_added
         ]_vars

\* C20 witness: on_ready has fired again after the loop was started, and
\* the one running task is in its second cycle, attempting a delivery.
C20_Witness ==
    /\ loop.readies >= 2
    /\ loop.tasks = 1
    /\ rss.cycle = 2
    /\ rss.pc = "send"

====
